---- MODULE Spec2Model ----
(***************************************************************************)
(* Model of src/main.py, the UK Finance Dashboard: the text normalizer,    *)
(* the category store and its persisted file, the categorizer, the         *)
(* transaction loader, the Apply Changes feedback loop and the analysis    *)
(* computations.  Strings are TLA+ strings handled character by character  *)
(* with Len, SubSeq and \o.                                                *)
(***************************************************************************)
EXTENDS Integers, Sequences, FiniteSets, TLC

\* ------------------------------------------------------------------ bounds
\* Longest details text of the function-level specification, in pieces.
MaxPieces == 3
\* Most keywords added to the store during one session.
MaxLearned == 2

\* ------------------------------------------------------------ characters
LowerLetters == "abcdefghijklmnopqrstuvwxyz"
UpperLetters == "ABCDEFGHIJKLMNOPQRSTUVWXYZ"
Digits == "0123456789"
Whitespace == {" ", "\t", "\n"}

CharAt(s, i) == SubSeq(s, i, i)

\* The characters of a string, as a set
CharsOf(alphabet) == {CharAt(alphabet, i) : i \in 1..Len(alphabet)}

DigitChars == CharsOf(Digits)

UpperChars == CharsOf(UpperLetters)

IsSpace(c) == c \in Whitespace

\* str.upper(), one character: a lower-case letter maps to its capital, every
\* other character of the model to itself
LowerToUpper ==
    [c \in CharsOf(LowerLetters) |->
        CharAt(UpperLetters, CHOOSE i \in 1..Len(LowerLetters) : CharAt(LowerLetters, i) = c)]

UpperChar(c) == IF c \in DOMAIN LowerToUpper THEN LowerToUpper[c] ELSE c

\* str.upper(): character by character; a string without lower-case letters
\* is returned as it is
RECURSIVE UpperFrom(_, _)
UpperFrom(s, i) == IF i > Len(s) THEN "" ELSE UpperChar(CharAt(s, i)) \o UpperFrom(s, i + 1)

Upper(s) ==
    IF \A i \in 1..Len(s) : CharAt(s, i) \notin DOMAIN LowerToUpper THEN s ELSE UpperFrom(s, 1)

\* str.strip()
RECURSIVE LStrip(_)
LStrip(s) == IF s # "" /\ IsSpace(CharAt(s, 1)) THEN LStrip(Tail(s)) ELSE s

RECURSIVE RStrip(_)
RStrip(s) ==
    IF s # "" /\ IsSpace(CharAt(s, Len(s))) THEN RStrip(SubSeq(s, 1, Len(s) - 1)) ELSE s

Strip(s) == RStrip(LStrip(s))

\* str.endswith(suffix)
EndsWith(s, suffix) ==
    /\ Len(suffix) <= Len(s)
    /\ SubSeq(s, Len(s) - Len(suffix) + 1, Len(s)) = suffix

\* needle in haystack
Contains(haystack, needle) ==
    \E i \in 1..(Len(haystack) - Len(needle) + 1) :
        SubSeq(haystack, i, i + Len(needle) - 1) = needle

\* ------------------------------------------------- clean_transaction_details
suffixes_to_remove == <<" CPM", " CLP", " BCC", " DDR", " BGC", " STO", " FT">>

\* The loop over suffixes_to_remove: each suffix is tested once, in list order,
\* against the string as the earlier iterations left it.
RECURSIVE RemoveSuffixes(_, _)
RemoveSuffixes(s, i) ==
    IF i > Len(suffixes_to_remove) THEN s
    ELSE LET suffix == suffixes_to_remove[i]
         IN  IF EndsWith(s, suffix)
             THEN RemoveSuffixes(SubSeq(s, 1, Len(s) - Len(suffix)), i + 1)
             ELSE RemoveSuffixes(s, i + 1)

\* Number of whitespace characters of s from position i on (\s+ is greedy, and
\* what follows it in the pattern is never whitespace)
RECURSIVE SpaceRun(_, _)
SpaceRun(s, i) ==
    IF i <= Len(s) /\ IsSpace(CharAt(s, i)) THEN 1 + SpaceRun(s, i + 1) ELSE 0

\* Length of the match of \s+ON\s+\d{2}\s+[A-Z]{3} at position i of s, 0 if none
DateMatchLen(s, i) ==
    LET w1 == SpaceRun(s, i)
        a  == i + w1
        w2 == SpaceRun(s, a + 2)
        b  == a + 2 + w2
        w3 == SpaceRun(s, b + 2)
        c  == b + 2 + w3
    IN  IF /\ w1 > 0
           /\ SubSeq(s, a, a + 1) = "ON"
           /\ w2 > 0
           /\ b + 1 <= Len(s)
           /\ CharAt(s, b) \in DigitChars /\ CharAt(s, b + 1) \in DigitChars
           /\ w3 > 0
           /\ c + 2 <= Len(s)
           /\ \A k \in 0..2 : CharAt(s, c + k) \in UpperChars
        THEN c + 3 - i
        ELSE 0

\* re.sub(pattern, '', s): leftmost non-overlapping matches, scanning from i
RECURSIVE RemoveDates(_, _)
RemoveDates(s, i) ==
    IF i > Len(s) THEN ""
    ELSE LET n == DateMatchLen(s, i)
         IN  IF n > 0 THEN RemoveDates(s, i + n)
             ELSE CharAt(s, i) \o RemoveDates(s, i + 1)

\* ' '.join(s.split()): the words of s joined by single spaces
RECURSIVE CollapseSpaces(_)
CollapseSpaces(s) ==
    IF s = "" THEN ""
    ELSE IF IsSpace(CharAt(s, 1))
         THEN LET rest == LStrip(s)
              IN  IF rest = "" THEN "" ELSE " " \o CollapseSpaces(rest)
         ELSE CharAt(s, 1) \o CollapseSpaces(Tail(s))

JoinSplit(s) == CollapseSpaces(Strip(s))

clean_transaction_details(details) ==
    JoinSplit(RemoveDates(RemoveSuffixes(Strip(Upper(details)), 1), 1))

\* ------------------------------------------------------------ Category Store
\* A store is a Python dict in insertion order: a sequence of
\* [name, keywords] entries with distinct names.
DEFAULT_CATEGORIES == <<
    [name |-> "Uncategorized", keywords |-> <<>>],
    [name |-> "Groceries", keywords |->
        <<"COOP", "TESCO", "SAINSBURY", "ALDI", "LIDL", "ASDA", "MORRISONS", "WAITROSE">>],
    [name |-> "Dining & Pubs", keywords |->
        <<"COSTA", "STARBUCKS", "CAFE", "RESTAURANT", "PUB", "BAR", "DORSET ARMS", "MARINERS INN">>],
    [name |-> "Transport", keywords |->
        <<"TRANSPORT", "TAXI", "UBER", "TRAIN", "BUS", "FUEL", "PARKING">>],
    [name |-> "Shopping", keywords |-> <<"AMAZON", "NEXT", "MARKS", "SPENCER", "BOOTS">>],
    [name |-> "Bills & Utilities", keywords |->
        <<"ELECTRIC", "GAS", "WATER", "COUNCIL TAX", "TV LICENSE", "INTERNET", "PHONE", "GOOGLE ONE">>],
    [name |-> "Entertainment", keywords |->
        <<"CINEMA", "NETFLIX", "SPOTIFY", "STEAM", "EVE ONLINE">>],
    [name |-> "Health", keywords |-> <<"NHS", "PHARMACY", "DENTAL", "OPTICAL">>],
    [name |-> "Rent & Housing", keywords |-> <<"RENT", "MORTGAGE", "INSURANCE">>],
    [name |-> "Transfers", keywords |-> <<"REVOLUT", "TRANSFER", "BGC", "SAVINGS">>],
    [name |-> "Direct Debits", keywords |-> <<"DDR", "DIRECT DEBIT">>],
    [name |-> "Salary", keywords |-> <<"ARCADIA EXPR          SALARY">>],
    [name |-> "Bonus", keywords |-> <<"ARCADIA EXPR          BONUS">>],
    [name |-> "Interest", keywords |-> <<"INTEREST">>],
    [name |-> "Refunds", keywords |-> <<"REFUND", "REBATE">>],
    [name |-> "Other Income", keywords |-> <<>>] >>

\* list(categories.keys()) as a set
Keys(store) == {store[i].name : i \in DOMAIN store}

\* Position of the key in the dict
IndexOf(store, name) == CHOOSE i \in DOMAIN store : store[i].name = name

\* categories[name]
KeywordsOf(store, name) == store[IndexOf(store, name)].keywords

\* keyword in list
InList(list, keyword) == \E i \in DOMAIN list : list[i] = keyword

\* json.dump(categories, f): the document written, an object whose members are
\* (key, array of strings) in the dict's order
JsonDump(store) == [i \in DOMAIN store |-> <<store[i].name, store[i].keywords>>]

\* json.load(f): the dict read back from a document
JsonLoad(doc) == [i \in DOMAIN doc |-> [name |-> doc[i][1], keywords |-> doc[i][2]]]

NoFile == [exists |-> FALSE, doc |-> <<>>]

\* save_categories(): the file after open(category_file, "w") and json.dump
save_categories(store) == [exists |-> TRUE, doc |-> JsonDump(store)]

\* Module level, every script run: session_state.categories is replaced by the
\* file's content when the file exists
LoadStore(store, f) == IF f.exists THEN JsonLoad(f.doc) ELSE store

\* extract_keyword
extract_keyword(details) == clean_transaction_details(details)

\* add_keyword_to_category without the "not in" test of line 110
AddKeywordNoDedup(store, f, category, keyword) ==
    IF keyword = ""
    THEN [store |-> store, file |-> f, ret |-> FALSE, raised |-> "none"]
    ELSE IF category \notin Keys(store)
    THEN [store |-> store, file |-> f, ret |-> FALSE, raised |-> "KeyError"]
    ELSE [store |-> [store EXCEPT ![IndexOf(store, category)].keywords = Append(@, keyword)],
          file |-> save_categories(
                     [store EXCEPT ![IndexOf(store, category)].keywords = Append(@, keyword)]),
          ret |-> TRUE, raised |-> "none"]

\* Lines 110-114 of add_keyword_to_category, keyword computed: the store and
\* file left, the return value, and the exception raised, if any.
\* categories[category] raises KeyError when category is no key; the test
\* short-circuits, so an empty keyword never reaches the lookup.
AddKeyword(store, f, category, keyword) ==
    IF keyword = ""
    THEN [store |-> store, file |-> f, ret |-> FALSE, raised |-> "none"]
    ELSE IF category \notin Keys(store)
    THEN [store |-> store, file |-> f, ret |-> FALSE, raised |-> "KeyError"]
    ELSE IF InList(KeywordsOf(store, category), keyword)
    THEN [store |-> store, file |-> f, ret |-> FALSE, raised |-> "none"]
    ELSE [store |-> [store EXCEPT ![IndexOf(store, category)].keywords = Append(@, keyword)],
          file |-> save_categories(
                     [store EXCEPT ![IndexOf(store, category)].keywords = Append(@, keyword)]),
          ret |-> TRUE, raised |-> "none"]

\* add_keyword_to_category(category, details) on a store and file
add_keyword_to_category(store, f, category, details) ==
    AddKeyword(store, f, category, Strip(Upper(extract_keyword(details))))

\* ---------------------------------------------------------------- Categorizer
\* any(keyword.upper() in cleaned_details for keyword in keywords)
AnyKeywordIn(keywords, cleaned_details) ==
    \E k \in DOMAIN keywords : Contains(cleaned_details, Upper(keywords[k]))

\* The inner loop with a test that the row is still unassigned: the first
\* matching category would keep the row
RECURSIVE AssignMatchingFirst(_, _, _)
AssignMatchingFirst(rows, category, keywords) ==
    IF rows = <<>> THEN <<>>
    ELSE <<IF /\ Head(rows).Category = "Uncategorized"
              /\ AnyKeywordIn(keywords, clean_transaction_details(Head(rows).Details))
           THEN [Head(rows) EXCEPT !.Category = category]
           ELSE Head(rows)>>
         \o AssignMatchingFirst(Tail(rows), category, keywords)

\* The inner loop of categorize_transactions, for idx, row in df.iterrows():
\* every row the category's keywords match is assigned the category, whatever
\* it was assigned before.
RECURSIVE AssignMatching(_, _, _)
AssignMatching(rows, category, keywords) ==
    IF rows = <<>> THEN <<>>
    ELSE LET row == Head(rows)
             cleaned_details == clean_transaction_details(row.Details)
         IN  <<IF AnyKeywordIn(keywords, cleaned_details)
               THEN [row EXCEPT !.Category = category]
               ELSE row>>
             \o AssignMatching(Tail(rows), category, keywords)

\* The outer loop of categorize_transactions from the i-th category on, in the
\* dict's order; "Uncategorized" and categories without keywords are skipped.
RECURSIVE CategorizeFrom(_, _, _)
CategorizeFrom(rows, store, i) ==
    IF i > Len(store) THEN rows
    ELSE LET category == store[i].name
             keywords == store[i].keywords
         IN  IF category = "Uncategorized" \/ keywords = <<>>
             THEN CategorizeFrom(rows, store, i + 1)
             ELSE CategorizeFrom(AssignMatching(rows, category, keywords), store, i + 1)

\* df["Category"] = "Uncategorized"
RECURSIVE SetCategory(_, _)
SetCategory(rows, category) ==
    IF rows = <<>> THEN <<>>
    ELSE <<[Head(rows) EXCEPT !.Category = category]>> \o SetCategory(Tail(rows), category)

\* The categorizer with a default label that is no key of the store
CategorizeDefaultOther(rows, store) ==
    CategorizeFrom(SetCategory(rows, "Other"), store, 1)

\* categorize_transactions(df)
categorize_transactions(rows, store) ==
    CategorizeFrom(SetCategory(rows, "Uncategorized"), store, 1)

\* ----------------------------------------------------------- Transaction Loader
\* Value of a decimal digit
DigitVal(c) == (CHOOSE i \in 1..Len(Digits) : CharAt(Digits, i) = c) - 1

AllDigits(s) == s # "" /\ \A i \in 1..Len(s) : CharAt(s, i) \in DigitChars

\* Value of a string of decimal digits
RECURSIVE NatOf(_)
NatOf(s) == IF s = "" THEN 0 ELSE 10 * NatOf(SubSeq(s, 1, Len(s) - 1)) + DigitVal(CharAt(s, Len(s)))

\* Positions of character c in s
Positions(s, c) == {i \in 1..Len(s) : CharAt(s, i) = c}

\* df["Amount"].astype(float) on one cell: an optional sign, digits and at most
\* two decimals give the amount in pence; anything else raises ValueError.
ParseAmount(s) ==
    LET signed == s # "" /\ CharAt(s, 1) \in {"-", "+"}
        body   == IF signed THEN Tail(s) ELSE s
        sign   == IF s # "" /\ CharAt(s, 1) = "-" THEN -1 ELSE 1
        dots   == Positions(body, ".")
        bad    == [ok |-> FALSE, v |-> 0]
    IN  IF dots = {}
        THEN IF AllDigits(body) THEN [ok |-> TRUE, v |-> sign * 100 * NatOf(body)] ELSE bad
        ELSE IF Cardinality(dots) # 1 THEN bad
        ELSE LET d  == CHOOSE i \in dots : TRUE
                 ip == SubSeq(body, 1, d - 1)
                 fp == SubSeq(body, d + 1, Len(body))
             IN  IF AllDigits(ip) /\ AllDigits(fp) /\ Len(fp) <= 2
                 THEN [ok |-> TRUE,
                       v |-> sign * (100 * NatOf(ip)
                                     + (IF Len(fp) = 1 THEN 10 * NatOf(fp) ELSE NatOf(fp)))]
                 ELSE bad

\* pd.to_datetime(df["Date"], format="%d/%m/%Y") on one cell: day/month/year
\* separated by "/", else ValueError.
ParseDate(s) ==
    LET slashes == Positions(s, "/")
        bad     == [ok |-> FALSE, year |-> 0, month |-> 0, day |-> 0]
    IN  IF Cardinality(slashes) # 2 THEN bad
        ELSE LET p1 == CHOOSE i \in slashes : \A j \in slashes : i <= j
                 p2 == CHOOSE i \in slashes : \A j \in slashes : j <= i
                 dd == SubSeq(s, 1, p1 - 1)
                 mm == SubSeq(s, p1 + 1, p2 - 1)
                 yy == SubSeq(s, p2 + 1, Len(s))
             IN  IF /\ AllDigits(dd) /\ Len(dd) <= 2 /\ NatOf(dd) \in 1..31
                    /\ AllDigits(mm) /\ Len(mm) <= 2 /\ NatOf(mm) \in 1..12
                    /\ AllDigits(yy) /\ Len(yy) = 4
                 THEN [ok |-> TRUE, year |-> NatOf(yy), month |-> NatOf(mm), day |-> NatOf(dd)]
                 ELSE bad

\* df.columns = [col.strip() for col in df.columns]
StripColumns(columns) == {Strip(c) : c \in columns}

\* The Barclays projection and rename of load_transactions: the column names
\* left, or a KeyError when Date or Amount is not there to select
BarclaysFormat(cols) == "Subcategory" \in cols /\ "Memo" \in cols

ColumnsAfterFormat(cols) ==
    IF BarclaysFormat(cols) THEN {"Date", "Amount", "Details"} ELSE cols

required_columns == {"Date", "Details", "Amount"}

\* Whether the try block of load_transactions raises on this upload: the CSV
\* does not parse, a selected or converted column is missing, an amount or a
\* date does not convert, or Details is missing at the required-columns test.
LoadRaises(upload) ==
    LET cols == StripColumns(upload.columns)
    IN  \/ ~upload.parses
        \/ BarclaysFormat(cols) /\ ~({"Date", "Amount"} \subseteq cols)
        \/ "Amount" \notin ColumnsAfterFormat(cols)
        \/ \E r \in DOMAIN upload.rows : ~ParseAmount(upload.rows[r].Amount).ok
        \/ "Date" \notin ColumnsAfterFormat(cols)
        \/ \E r \in DOMAIN upload.rows : ~ParseDate(upload.rows[r].Date).ok
        \/ ~(required_columns \subseteq ColumnsAfterFormat(cols))

\* One row of the typed table: Amount in pence, Date parsed, Debit/Credit derived
TypedRow(raw) ==
    LET amount == ParseAmount(raw.Amount).v
        date   == ParseDate(raw.Date)
    IN  [Date |-> [year |-> date.year, month |-> date.month, day |-> date.day],
         Details |-> raw.Text,
         Amount |-> amount,
         Direction |-> IF amount > 0 THEN "Credit" ELSE "Debit",
         Category |-> ""]

NoTable == [some |-> FALSE, rows |-> <<>>]

\* A loader that hands back the rows it could convert when the upload is bad
LoadPartialOnError(upload, store) ==
    LET good == SelectSeq(upload.rows,
                          LAMBDA raw : ParseAmount(raw.Amount).ok /\ ParseDate(raw.Date).ok)
    IN  [error |-> LoadRaises(upload), some |-> TRUE,
         rows |-> categorize_transactions([r \in DOMAIN good |-> TypedRow(good[r])], store)]

\* load_transactions(file): the categorized table, or None after st.error
load_transactions(upload, store) ==
    IF LoadRaises(upload)
    THEN [error |-> TRUE, some |-> FALSE, rows |-> <<>>]
    ELSE [error |-> FALSE, some |-> TRUE,
          rows |-> categorize_transactions(
                       [r \in DOMAIN upload.rows |-> TypedRow(upload.rows[r])], store)]

\* ------------------------------------------------------------------- analysis
RECURSIVE SumAmounts(_)
SumAmounts(rows) == IF rows = <<>> THEN 0 ELSE Head(rows).Amount + SumAmounts(Tail(rows))

RECURSIVE SumOver(_, _)
SumOver(f, keys) ==
    IF keys = {} THEN 0
    ELSE LET k == CHOOSE k \in keys : TRUE IN f[k] + SumOver(f, keys \ {k})

\* calculate_savings_projections(df): the 13 projected values as fractions
\* num/den of pence, den being the number of (year, month) groups
calculate_savings_projections(rows) ==
    LET groups == {<<rows[r].Date.year, rows[r].Date.month>> : r \in DOMAIN rows}
        monthly_net == [g \in groups |->
            SumAmounts(SelectSeq(rows, LAMBDA row : <<row.Date.year, row.Date.month>> = g))]
        n == Cardinality(groups)
        current_savings == SumOver(monthly_net, groups)
    IN  [k \in 1..13 |-> [num |-> current_savings * n + (k - 1) * current_savings, den |-> n]]

\* The Savings Goals block of main: nothing when goal_amount is 0; else
\* avg_monthly_net = projections[-1] / 12 and the unguarded division by it.
\* divisor is the numerator of avg_monthly_net (zero exactly when it is zero).
MonthsToGoal(rows, goal) ==
    IF goal > 0
    THEN LET last == calculate_savings_projections(rows)[13]
         IN  [computed |-> TRUE, divisor |-> last.num,
              num |-> 12 * (goal * last.den - last.num), den |-> last.num]
    ELSE [computed |-> FALSE, divisor |-> 1, num |-> 0, den |-> 1]

NoEntry == [some |-> FALSE, category |-> "", value |-> 0]

\* track_budget_vs_actual(df): the budget limits it leaves, entry being what
\* the user typed into one category's number_input in this run
BudgetLimitsAfter(rows, budgets, entry) ==
    LET shown == {rows[r].Category : r \in DOMAIN rows}
    IN  [c \in DOMAIN budgets \cup shown |->
            IF entry.some /\ c = entry.category /\ c \in shown THEN entry.value
            ELSE IF c \in DOMAIN budgets THEN budgets[c] ELSE 0]

\* progress of one category: actual_spending / limit if limit > 0 else 0
BudgetProgress(rows, limit, category) ==
    LET actual_spending ==
            LET total == SumAmounts(SelectSeq(rows, LAMBDA row : row.Category = category))
            IN  IF total < 0 THEN -total ELSE total
    IN  IF limit > 0
        THEN [divided |-> TRUE, divisor |-> limit, num |-> actual_spending, den |-> limit]
        ELSE [divided |-> FALSE, divisor |-> 1, num |-> 0, den |-> 1]

\* tab3 of main on the canonical table df: what the run shows and the divisors
\* of the divisions it performs
Analysis(rows, budgets, goal, entry) ==
    LET limits   == BudgetLimitsAfter(rows, budgets, entry)
        shown    == {rows[r].Category : r \in DOMAIN rows}
        progress == [c \in shown |-> BudgetProgress(rows, limits[c], c)]
        months   == MonthsToGoal(rows, goal)
    IN  [budget_limits |-> limits,
         divisors |-> {progress[c].divisor : c \in {d \in shown : progress[d].divided}}
                      \cup (IF months.computed THEN {months.divisor} ELSE {}),
         by_category |-> [c \in shown |->
                            SumAmounts(SelectSeq(rows, LAMBDA row : row.Category = c))]]

\* ----------------------------------------------------------------------- main
\* debits_df = df[df["Debit/Credit"] == "Debit"].copy(): the debit rows under
\* their index in df
Debits(rows) ==
    [i \in {j \in DOMAIN rows : rows[j].Direction = "Debit"} |-> rows[i]]

NoDebits == [set |-> FALSE, rows |-> <<>>]

\* Lines 195-196 for one changed row: the row is updated in
\* session_state.debits_df, then added is what add_keyword_to_category did
EditRow(st, idx, new_category, added) ==
    [store |-> added.store, file |-> added.file,
     debits |-> [st.debits EXCEPT ![idx].Category = new_category],
     raised |-> added.raised]

\* The Apply Changes loop over edited_df.iterrows(), rows in index order: a
\* changed row is updated and its details are added as a keyword of the new
\* category. An exception ends the loop and the run.
RECURSIVE ApplyEdits(_, _, _)
ApplyEdits(todo, edited, st) ==
    IF todo = {} \/ st.raised # "none" THEN st
    ELSE LET idx == CHOOSE i \in todo : \A j \in todo : i <= j
         IN  IF edited[idx] = st.debits[idx].Category
             THEN ApplyEdits(todo \ {idx}, edited, st)
             ELSE ApplyEdits(todo \ {idx}, edited,
                     EditRow(st, idx, edited[idx],
                             add_keyword_to_category(st.store, st.file, edited[idx],
                                                     st.debits[idx].Details)))

\* The end of a run that loaded a table: line 199's save_categories() after
\* the Apply Changes loop, then tab3 on the canonical table. An exception of
\* the loop ends the run before both.
FinishRun(applied, rows, budgets, save_button, an) ==
    IF applied.raised # "none"
    THEN [categories |-> applied.store, file |-> applied.file,
          df |-> [some |-> TRUE, rows |-> rows],
          debits_df |-> [set |-> TRUE, rows |-> applied.debits],
          budget_limits |-> budgets,
          out |-> [error |-> FALSE, raised |-> applied.raised, divisors |-> {}]]
    ELSE [categories |-> applied.store,
          file |-> IF save_button THEN save_categories(applied.store) ELSE applied.file,
          df |-> [some |-> TRUE, rows |-> rows],
          debits_df |-> [set |-> TRUE, rows |-> applied.debits],
          budget_limits |-> an.budget_limits,
          out |-> [error |-> FALSE, raised |-> "none", divisors |-> an.divisors]]

\* The session as main sets it at line 146, before any button is handled
RunStart(store, f, rows) ==
    [store |-> store, file |-> f, debits |-> Debits(rows), raised |-> "none"]

\* One run of the script with a table loaded: main from line 142 on, with
\* the Apply Changes button pressed or not
RunLoaded(store, f, rows, budgets, goal, entry, save_button, edited) ==
    FinishRun(IF save_button
              THEN ApplyEdits({j \in DOMAIN rows : rows[j].Direction = "Debit"}, edited,
                              RunStart(store, f, rows))
              ELSE RunStart(store, f, rows),
              rows, budgets, save_button, Analysis(rows, budgets, goal, entry))

\* A run that leaves main at line 139 or 142: no upload, or no table
RunIdle(store, f, debits, budgets, error) ==
    [categories |-> store, file |-> f, df |-> NoTable, debits_df |-> debits,
     budget_limits |-> budgets,
     out |-> [error |-> error, raised |-> "none", divisors |-> {}]]

\* main, given the store of this run and what load_transactions returned
RunMain(categories0, f, upload, loaded, debits, budgets, goal, entry, save_button, edited) ==
    IF ~upload.some THEN RunIdle(categories0, f, debits, budgets, FALSE)
    ELSE IF ~loaded.some THEN RunIdle(categories0, f, debits, budgets, loaded.error)
    ELSE [RunLoaded(categories0, f, loaded.rows, budgets, goal, entry, save_button, edited)
            EXCEPT !.out.error = loaded.error]

\* The script from line 39 on, given the store of this run
RunWith(categories0, f, upload, debits, budgets, goal, entry, save_button, edited) ==
    RunMain(categories0, f, upload, load_transactions(upload.file, categories0),
            debits, budgets, goal, entry, save_button, edited)

\* One run of the script, module level and main, no Add Category press
Run(store, f, upload, debits, budgets, goal, entry, save_button, edited) ==
    RunWith(LoadStore(store, f), f, upload, debits, budgets, goal, entry, save_button, edited)

\* The Add Category handler without its save: the new key stays in memory only
AddCategoryNoSave(store, f, new_category) ==
    IF new_category \notin Keys(store)
    THEN [store |-> Append(store, [name |-> new_category, keywords |-> <<>>]), file |-> f]
    ELSE [store |-> store, file |-> f]

\* Lines 159-161: insert the new key with an empty list and save the store
AddCategory(store, f, new_category) ==
    IF new_category \notin Keys(store)
    THEN [store |-> Append(store, [name |-> new_category, keywords |-> <<>>]),
          file |-> save_categories(Append(store, [name |-> new_category, keywords |-> <<>>]))]
    ELSE [store |-> store, file |-> f]

\* The rerun st.rerun() starts after the handler: added is the store and file
\* the handler left, rows the table of the run it ended
RerunAfterAdd(added, upload, rows, budgets, goal) ==
    Run(added.store, added.file, upload, [set |-> TRUE, rows |-> Debits(rows)],
        budgets, goal, NoEntry, FALSE, <<>>)

\* The run in which Add Category is pressed, given the store of this run and
\* what load_transactions returned: without a table or a name typed it is a
\* plain run; else debits_df is set, the handler runs, and st.rerun() starts
\* the script again with no button pressed.
AddCategoryMain(categories0, f, upload, loaded, debits, budgets, goal, new_category) ==
    IF ~upload.some \/ ~loaded.some \/ new_category = ""
    THEN RunMain(categories0, f, upload, loaded, debits, budgets, goal, NoEntry, FALSE, <<>>)
    ELSE RerunAfterAdd(AddCategory(categories0, f, new_category), upload, loaded.rows,
                       budgets, goal)

AddCategoryWith(categories0, f, upload, debits, budgets, goal, new_category) ==
    AddCategoryMain(categories0, f, upload, load_transactions(upload.file, categories0),
                    debits, budgets, goal, new_category)

RunAddCategory(store, f, upload, debits, budgets, goal, new_category) ==
    AddCategoryWith(LoadStore(store, f), f, upload, debits, budgets, goal, new_category)

\* --------------------------------------------------------------------- inputs
RECURSIVE Concat(_)
Concat(pieces) == IF pieces = <<>> THEN "" ELSE Head(pieces) \o Concat(Tail(pieces))

\* Sequences over S of length 0..n
SeqsUpTo(S, n) == UNION {[1..k -> S] : k \in 0..n}

Pieces == {"tesco", " UBER", " CPM", " DDR", " ON 05 JAN"}

\* Details texts of the function-level specification
Texts == {Concat(ps) : ps \in SeqsUpTo(Pieces, MaxPieces)}

\* Categories named in direct calls of add_keyword_to_category
CallCategories == {"Groceries", "Transport", "Holidays"}

\* Header rows of the uploaded files
StandardColumns == {"Date", "Details", "Amount"}
PaddedColumns == {"Date", "Details ", "Amount"}
BarclaysColumns == {"Number", "Date", "Account", "Amount", "Subcategory", "Memo"}
MemoOnlyColumns == {"Date", "Amount", "Memo"}
NoDateColumns == {"Details", "Amount"}

TescoUber == [Date |-> "15/03/2024", Amount |-> "-10.00", Text |-> "TESCO UBER CPM"]
TescoIn   == [Date |-> "20/04/2024", Amount |-> "10.00",  Text |-> "tesco stores ddr"]
Xyz       == [Date |-> "15/03/2024", Amount |-> "-23.5",  Text |-> "XYZ ON 05 JAN"]
BadDate   == [Date |-> "2024-03-15", Amount |-> "-10.00", Text |-> "XYZ ON 05 JAN"]
BadAmount == [Date |-> "15/03/2024", Amount |-> "abc",    Text |-> "TESCO UBER CPM"]

MalformedCsv == [parses |-> FALSE, columns |-> {}, rows |-> <<>>]

Csv(columns, rows) == [parses |-> TRUE, columns |-> columns, rows |-> rows]

\* The CSV files a user uploads: good files in both formats, and files with a
\* missing column, an unparseable date or amount, or no CSV at all
Uploads == {
    Csv(StandardColumns, <<TescoUber, Xyz>>),
    Csv(BarclaysColumns, <<TescoUber, TescoIn>>),
    Csv(PaddedColumns, <<Xyz>>),
    Csv(MemoOnlyColumns, <<TescoUber>>),
    Csv(NoDateColumns, <<Xyz>>),
    Csv(StandardColumns, <<TescoUber, BadDate>>),
    Csv(BarclaysColumns, <<BadAmount, Xyz>>),
    MalformedCsv }

NewCategoryNames == {"", "Pets", "Groceries"}

\* Categories the user picks in the editor's Category column
EditTargets == {"Uncategorized", "Groceries", "Transport", "Pets"}

GoalAmounts == {0, 10000}

BudgetValues == {0, 50}

\* ---------------------------------------------------------------------- state
VARIABLES
    categories,     \* st.session_state.categories
    file,           \* categories.json
    uploaded,       \* the file_uploader widget's value
    df,             \* main's df of the latest run, the canonical table
    debits_df,      \* st.session_state.debits_df
    budget_limits,  \* st.session_state.budget_limits
    goal_amount,    \* the Savings Goal number_input's value
    out,            \* what the latest run reported
    call            \* the latest direct call of a function and its result

vars == <<categories, file, uploaded, df, debits_df, budget_limits, goal_amount, out, call>>

NoUpload == [some |-> FALSE, file |-> MalformedCsv]

NoCall == [op |-> "none", text |-> "", category |-> "", ret |-> "", raised |-> "none",
           rows |-> <<>>]

\* The session before its first run: no categories.json, the default store
InitSession ==
    /\ categories = DEFAULT_CATEGORIES
    /\ file = NoFile
    /\ uploaded = NoUpload
    /\ df = NoTable
    /\ debits_df = NoDebits
    /\ budget_limits = <<>>
    /\ goal_amount = 0
    /\ out = [error |-> FALSE, raised |-> "none", divisors |-> {}]

Init == InitSession /\ call = NoCall

\* The function-level specification: the arguments of the direct calls are
\* drawn here, a details text and a category name
InitFn ==
    /\ InitSession
    /\ \E text \in Texts, category \in CallCategories :
           call = [NoCall EXCEPT !.text = text, !.category = category]

\* Keywords in the store beyond the default ones
RECURSIVE CountKeywords(_)
CountKeywords(store) ==
    IF store = <<>> THEN 0 ELSE Len(Head(store).keywords) + CountKeywords(Tail(store))

Learned(store) == CountKeywords(store) - CountKeywords(DEFAULT_CATEGORIES)

\* The state a run leaves
Becomes(run) ==
    LET r == run IN
    /\ categories' = r.categories
    /\ file' = r.file
    /\ df' = r.df
    /\ debits_df' = r.debits_df
    /\ budget_limits' = r.budget_limits
    /\ out' = r.out

\* ------------------------------------------------------------------- actions
\* The user uploads a CSV file; the script runs
Upload ==
    \E u \in Uploads :
        /\ uploaded' = [some |-> TRUE, file |-> u]
        /\ Becomes(Run(categories, file, [some |-> TRUE, file |-> u], debits_df,
                       budget_limits, goal_amount, NoEntry, FALSE, <<>>))
        /\ UNCHANGED <<goal_amount, call>>

\* The user removes the uploaded file; the script runs
RemoveFile ==
    /\ uploaded.some
    /\ uploaded' = NoUpload
    /\ Becomes(Run(categories, file, NoUpload, debits_df, budget_limits, goal_amount,
                   NoEntry, FALSE, <<>>))
    /\ UNCHANGED <<goal_amount, call>>

\* The user presses Add Category with new_category typed
PressAddCategory ==
    \E new_category \in NewCategoryNames :
        /\ df.some
        /\ Becomes(RunAddCategory(categories, file, uploaded, debits_df, budget_limits,
                                  goal_amount, new_category))
        /\ UNCHANGED <<uploaded, goal_amount, call>>

\* What the Category column of the editor can show: per debit row, one of the
\* selectbox's options
EditedColumns(debits, options) == [DOMAIN debits -> EditTargets \cap options]

\* Rows whose edited category differs from the one the run's table gives them
Changes(edited, rows) == Cardinality({i \in DOMAIN edited : edited[i] # rows[i].Category})

\* The user edits the Category column of the expenses editor and presses
\* Apply Changes: edited[idx] is the category shown for row idx
PressApplyChanges ==
    /\ df.some
    /\ \E edited \in EditedColumns(Debits(df.rows), Keys(LoadStore(categories, file))) :
           /\ Learned(categories)
                + Changes(edited, load_transactions(uploaded.file,
                                                    LoadStore(categories, file)).rows)
                <= MaxLearned
           /\ Becomes(Run(categories, file, uploaded, debits_df, budget_limits,
                          goal_amount, NoEntry, TRUE, edited))
    /\ UNCHANGED <<uploaded, goal_amount, call>>

\* The user sets the savings goal
SetGoal ==
    \E g \in GoalAmounts :
        /\ df.some
        /\ goal_amount' = g
        /\ Becomes(Run(categories, file, uploaded, debits_df, budget_limits, g,
                       NoEntry, FALSE, <<>>))
        /\ UNCHANGED <<uploaded, call>>

\* The user types a budget for one of the categories shown
SetBudget ==
    \E c \in {df.rows[r].Category : r \in DOMAIN df.rows}, v \in BudgetValues :
        /\ df.some
        /\ Becomes(Run(categories, file, uploaded, debits_df, budget_limits, goal_amount,
                       [some |-> TRUE, category |-> c, value |-> v], FALSE, <<>>))
        /\ UNCHANGED <<uploaded, goal_amount, call>>

\* A direct call of clean_transaction_details(call.text)
CallClean ==
    /\ call' = [call EXCEPT !.op = "clean", !.ret = clean_transaction_details(call.text),
                            !.raised = "none", !.rows = <<>>]
    /\ UNCHANGED <<categories, file, uploaded, df, debits_df, budget_limits,
                   goal_amount, out>>

\* Occurrences of keyword in list
Count(list, keyword) == Cardinality({i \in DOMAIN list : list[i] = keyword})

\* What a direct call of add_keyword_to_category leaves
Called(r) ==
    /\ categories' = r.store
    /\ file' = r.file
    /\ call' = [call EXCEPT !.op = "add_keyword",
                            !.ret = IF r.ret THEN "True" ELSE "False",
                            !.raised = r.raised, !.rows = <<>>]

\* A direct call of add_keyword_to_category(call.category, call.text)
CallAddKeyword ==
    /\ Called(add_keyword_to_category(categories, file, call.category, call.text))
    /\ UNCHANGED <<uploaded, df, debits_df, budget_limits, goal_amount, out>>

\* A direct call of categorize_transactions on a one-row table whose Details
\* is call.text
CallCategorize ==
    /\ call' = [call EXCEPT !.op = "categorize", !.ret = "", !.raised = "none",
                  !.rows = categorize_transactions(
                      <<[Date |-> [year |-> 2024, month |-> 3, day |-> 15],
                         Details |-> call.text, Amount |-> -1000,
                         Direction |-> "Debit", Category |-> ""]>>, categories)]
    /\ UNCHANGED <<categories, file, uploaded, df, debits_df, budget_limits,
                   goal_amount, out>>

Next == Upload \/ RemoveFile \/ PressAddCategory \/ PressApplyChanges

Spec == Init /\ [][Next]_vars

NextAnalysis == Upload \/ SetGoal \/ SetBudget

SpecAnalysis == Init /\ [][NextAnalysis]_vars

NextFn == CallClean \/ CallAddKeyword \/ CallCategorize

SpecFn == InitFn /\ [][NextFn]_vars
\* ================================================================= properties
\* Positions of the categories whose keywords match the details, as the
\* categorizer tests them: "Uncategorized" is never tested
MatchingCategories(store, details) ==
    {i \in DOMAIN store :
        /\ store[i].name # "Uncategorized"
        /\ AnyKeywordIn(store[i].keywords, clean_transaction_details(details))}

First(S) == CHOOSE i \in S : \A j \in S : i <= j

Last(S) == CHOOSE i \in S : \A j \in S : j <= i

\* No keyword of any category of the store, "Uncategorized" included, is in
\* the normalized details
NoKeywordMatches(store, details) ==
    \A i \in DOMAIN store :
        ~AnyKeywordIn(store[i].keywords, clean_transaction_details(details))

\* The keyword add_keyword_to_category derives from a raw text
KeywordOf(text) == Strip(Upper(clean_transaction_details(text)))

\* Rows of debits_df whose category differs from the canonical table's: the
\* rows the latest run's Apply Changes edited
EditedRows ==
    IF df.some /\ debits_df.set
    THEN {i \in DOMAIN debits_df.rows \cap DOMAIN df.rows :
             debits_df.rows[i].Category # df.rows[i].Category}
    ELSE {}

\* C1 as stated: a transaction whose normalized details contain keywords of
\* two or more categories is assigned the one that comes first in the store's
\* order (first-match-wins).
C1_FirstMatchWins ==
    call.op = "categorize" =>
        \A r \in DOMAIN call.rows :
            LET m == MatchingCategories(categories, call.rows[r].Details)
            IN  Cardinality(m) >= 2 => call.rows[r].Category = categories[First(m)].name

\* C1 amended: a transaction whose normalized details contain keywords of one
\* or more categories is assigned the one that comes last in the store's order
\* (a later matching category overwrites an earlier one); with no match it
\* stays "Uncategorized".
C1_LastMatchWins ==
    call.op = "categorize" =>
        \A r \in DOMAIN call.rows :
            LET m == MatchingCategories(categories, call.rows[r].Details)
            IN  call.rows[r].Category =
                    IF m = {} THEN "Uncategorized" ELSE categories[Last(m)].name

\* C1 witness: a categorized transaction that two or more categories match
C1_Witness ==
    /\ call.op = "categorize"
    /\ \E r \in DOMAIN call.rows :
           Cardinality(MatchingCategories(categories, call.rows[r].Details)) >= 2

\* C2 as stated: after the edit of a transaction to category C is applied, its
\* normalized details are in C's keyword list and a load of a transaction with
\* the same details assigns it C.
C2_FeedbackLearns ==
    \A i \in EditedRows :
        LET row == debits_df.rows[i]
        IN  /\ InList(KeywordsOf(categories, row.Category),
                      clean_transaction_details(row.Details))
            /\ categorize_transactions(<<row>>, categories)[1].Category = row.Category

\* C3: "Uncategorized" is a key of the store, every transaction's category,
\* in the canonical table and in the debits view, is a key of the store, and
\* a transaction whose normalized details contain no keyword of any category
\* is "Uncategorized".
C3_CategoriesAreKeys ==
    /\ "Uncategorized" \in Keys(categories)
    /\ \A r \in DOMAIN df.rows :
           /\ df.rows[r].Category \in Keys(categories)
           /\ NoKeywordMatches(categories, df.rows[r].Details)
                 => df.rows[r].Category = "Uncategorized"
    /\ \A i \in DOMAIN debits_df.rows :
           /\ debits_df.rows[i].Category \in Keys(categories)
           /\ NoKeywordMatches(categories, debits_df.rows[i].Details)
                 => debits_df.rows[i].Category = "Uncategorized"

\* C3 witness: a category was added, a row was edited, and the table holds a
\* transaction no keyword matches
C3_Witness ==
    /\ "Pets" \in Keys(categories)
    /\ EditedRows # {}
    /\ \E r \in DOMAIN df.rows :
           /\ NoKeywordMatches(categories, df.rows[r].Details)
           /\ df.rows[r].Category = "Uncategorized"

\* C4: every step that changes the in-memory store leaves the file holding
\* exactly the store, and whenever the file exists a rerun's reload from it
\* gives the store back, so no completed mutation is lost.
C4_PersistedImmediately ==
    [][/\ categories' # categories => file' = save_categories(categories')
       /\ file'.exists => LoadStore(categories', file') = categories']_vars

\* C4 witness: both kinds of mutation done, a category added and a keyword
\* learned, and the file holding the store
C4_Witness ==
    /\ "Pets" \in Keys(categories)
    /\ Learned(categories) > 0
    /\ file = save_categories(categories)

\* C5: a call of add_keyword_to_category on a category of the store leaves
\* exactly one entry of a non-empty keyword; it returns True only when it
\* appended a keyword that was absent; a keyword already present, an empty
\* keyword, and a call that repeats the call before it return False and
\* leave store and file unchanged.
C5_AddKeywordIdempotent ==
    [][(call'.op = "add_keyword" /\ call.category \in Keys(categories)) =>
          LET kw   == KeywordOf(call.text)
              old  == KeywordsOf(categories, call.category)
              new  == KeywordsOf(categories', call.category)
              noop == call'.ret = "False" /\ categories' = categories /\ file' = file
          IN  /\ call'.raised = "none"
              /\ kw # "" => Count(new, kw) = 1
              /\ kw = "" => noop
              /\ InList(old, kw) => noop
              /\ call.op = "add_keyword" => noop
              /\ call'.ret = "True" => ~InList(old, kw) /\ new = Append(old, kw)]_vars

\* C5 witness: the second of two calls with the same arguments has returned
\* False, the first having appended the keyword
C5_Witness ==
    /\ call.op = "add_keyword"
    /\ call.ret = "False"
    /\ Learned(categories) = 1
    /\ call.category \in Keys(categories)
    /\ Count(KeywordsOf(categories, call.category), KeywordOf(call.text)) = 1
    /\ file = save_categories(categories)

\* C6 as stated: add_keyword_to_category on a category that is no key of the
\* store returns False, raises nothing and leaves store and file unchanged.
C6_MissingCategoryNoOp ==
    (call.op = "add_keyword" /\ call.category \notin Keys(categories)) =>
        /\ call.raised = "none"
        /\ call.ret = "False"
        /\ categories = DEFAULT_CATEGORIES
        /\ file = NoFile

\* C7 as stated: clean_transaction_details is idempotent.
C7_NormalizerIdempotent ==
    call.op = "clean" => clean_transaction_details(call.ret) = call.ret

\* C8: a run whose load fails reports the error, holds no table, raises
\* nothing, and leaves the store, its file, the session's debits table and the
\* budget limits as they were.
C8_FailedLoadKeepsState ==
    [][out'.error =>
          /\ ~df'.some
          /\ out'.raised = "none"
          /\ categories' = categories
          /\ file' = file
          /\ debits_df' = debits_df
          /\ budget_limits' = budget_limits]_vars

\* C8 witness: a load has failed in a session that holds a debits table, a
\* store with a learned keyword and a file
C8_Witness ==
    /\ out.error
    /\ uploaded.some
    /\ debits_df.set
    /\ Learned(categories) > 0
    /\ file.exists

\* C9 as stated: the canonical table and the debits view agree on the category
\* of every transaction.
C9_ViewsAgree ==
    (df.some /\ debits_df.set) =>
        \A i \in DOMAIN debits_df.rows :
            i \in DOMAIN df.rows /\ debits_df.rows[i].Category = df.rows[i].Category

\* C10 as stated: no division of a run, in budget progress or months-to-goal,
\* has a zero divisor.
C10_ZeroGuarded == 0 \notin out.divisors
====
